---- MODULE Spec2Model ----
(***************************************************************************)
(* A model of libx (src/libx.h): the arena with nested temporary regions   *)
(* and the header-prefixed list.                                           *)
(*                                                                         *)
(* C integers keep their width.  TLC's integers are 32 bits wide, so the   *)
(* widths are scaled: a byte has BitsPerByte bits, an int has SizeofInt    *)
(* bytes and a u64 / size_t has SizeofU64 bytes.  Conversions between the  *)
(* two are C's: int -> u64 is reduction modulo 2^U64Bits (sign extension), *)
(* u64 -> int keeps the low IntBits bits (two's complement).               *)
(* Addresses are plain integers (a flat address space).                    *)
(***************************************************************************)
EXTENDS Integers, Sequences, FiniteSets, TLC

\* ---------------------------------------------------------------- bounds
BitsPerByte == 1
MaxSize == 1
MaxCalls == 4
MaxCap == 2
MaxListCalls == 10
MaxLen == 2
MaxStrs == 3
MaxSplitLen == 3
MaxErr == 3
MaxErrCalls == 2
MaxXCalls == 4

\* every call may declare a new Arena variable
NArenas == MaxCalls

\* ------------------------------------------------------- program constants
SizeofInt == 4
SizeofU64 == 8

ERR_NO_ERROR == 0
ERR_FILE_READ == 1
ERR_NO_MEMORY == 2
ERR_MEMORY_FREED == 3
ERR_DOUBLE_FREE == 4
ERR_ARENA_RELEASE_AFTER_ALLOC == 5
ERR_TEMP_ARENA_FREE == 6
ERR_LIST_FULL == 7
ERR_ITERATION_FINISH == 8
ERR_FILE_NOT_FOUND == 9
ERR_NULL_PTR == 10

NULL == 0

\* ------------------------------------------------------------ C integers
RECURSIVE Pow2(_)
Pow2(n) == IF n = 0 THEN 1 ELSE 2 * Pow2(n - 1)

IntBits == SizeofInt * BitsPerByte
U64Bits == SizeofU64 * BitsPerByte
IntMod == Pow2(IntBits)
U64Mod == Pow2(U64Bits)
IntMin == 0 - (IntMod \div 2)
IntMax == (IntMod \div 2) - 1
IntRange == IntMin .. IntMax
U64Max == U64Mod - 1

\* conversion of any integer value to u64 (unsigned long long)
ToU64(x) == x % U64Mod

\* conversion of an integer value to int: the low IntBits bits
ToInt(x) == LET m == x % IntMod IN IF m > IntMax THEN m - IntMod ELSE m

\* int - int: signed overflow is undefined, so any int may result
SubInt(x, y) == IF (x - y) \in IntRange THEN {x - y} ELSE IntRange

\* ------------------------------------------------------------------ heap
\* The system allocator places the block of the i-th arena variable at
\* HeapBase(i); blocks are far enough apart that no in-model pointer
\* arithmetic reaches address 0.
HeapStride == (NArenas + 2) * IntMod
HeapBase(i) == i * HeapStride
MaxHeapBlock == IntMax + 1

\* xdefaultAlloc(size) for the block of variable i: NULL is always possible
xdefaultAlloc(i, size) ==
    {NULL} \cup (IF size <= MaxHeapBlock THEN {HeapBase(i)} ELSE {})

\* ----------------------------------------------------------------- Arena
ZeroArena == [memory |-> NULL, size |-> 0, pos |-> 0, depth |-> 0, err |-> ERR_NO_ERROR]

\* (Arena){.err = e}: every other field is zero
ErrArena(e) == [ZeroArena EXCEPT !.err = e]

Ok(o) == o.err = 0

\* the sizes the callers pass (u64): small ones, the first that does not fit
\* an int, and the largest
SizeArgs == (0 .. MaxSize) \cup {IntMax + 1, U64Max}

VARIABLES
    arenas,     \* the Arena variables of the caller, by slot
    narenas,    \* how many of them are declared
    origin,     \* ghost: how each variable was obtained
    chain,      \* ghost: the temporary regions opened one after another
    done,       \* ghost: the calls of ArenaFree / ArenaReleaseTemp that succeeded
    sysFreed,   \* ghost: the pointers passed to xdefaultFree, in order
    ncalls,     \* ghost: the number of calls made
    last        \* ghost: the last call, its arguments, result and pre-state

arenaVars == <<arenas, narenas, origin, chain, done, sysFreed, ncalls, last>>

VARIABLES
    list,       \* the block behind the caller's list pointer
    lghost,     \* ghost: how the list was declared and what was appended
    lcalls,     \* ghost: the number of list calls made
    llast       \* ghost: the last list call, its argument, result and pre-state

listVars == <<list, lghost, lcalls, llast>>

VARIABLES
    smem,       \* the caller's char array and the block of the arena
    sa,         \* the Arena the string functions allocate from
    sap,        \* the caller's pointer to it: NULL or 1 (the address of sa)
    strs,       \* the String variables of the caller, by slot
    nstrs,      \* how many of them are declared
    sfrom,      \* ghost: the call each String variable was obtained by
    sstate,     \* "none", "live", or "undefined" after undefined behaviour
    slast       \* ghost: the last string call, its arguments, result, pre-state

strVars == <<smem, sa, sap, strs, nstrs, sfrom, sstate, slast>>

VARIABLES
    itext,      \* the caller's char array
    iter,       \* the caller's StringIter
    istate,     \* "none", "live", or "undefined" after undefined behaviour
    isegs,      \* ghost: the StrSplit calls made, with the Strings returned
    ilast       \* ghost: the last call, its result and the iterator before it

iterVars == <<itext, iter, istate, isegs, ilast>>

VARIABLES
    xstate,     \* "running", "exited" after panic, "undefined"
    xcalls,     \* ghost: the number of XError calls made
    xlast       \* ghost: the last XError call, its argument and outcome

errVars == <<xstate, xcalls, xlast>>

VARIABLES
    xarenas,    \* libx.c: the Arena variables of the caller, by slot
    nxarenas,   \* how many of them are declared
    xfreed,     \* ghost: the pointers passed to xdefaultFree, in order
    xdone,      \* ghost: the variables XArenaFree returned ERR_NO_ERROR for
    xastate,    \* "live", or "undefined" after undefined behaviour
    xacalls,    \* ghost: the number of calls made
    xalast      \* ghost: the last call, its arguments, result and pre-state

xaVars == <<xarenas, nxarenas, xfreed, xdone, xastate, xacalls, xalast>>

vars == <<arenaVars, listVars, strVars, iterVars, errVars, xaVars>>

Slots == 1 .. NArenas
Declared == 1 .. narenas
DeclaredPtrs == 0 .. narenas   \* Arena *: NULL or a declared variable

NoOrigin == [kind |-> "none", parent |-> 0, pos0 |-> 0]
NoChain == [parent |-> 0, temps |-> <<>>]
NoneDone == [freed |-> {}, released |-> {}]
NoCall == [op |-> "none", a |-> 0, b |-> 0, n |-> 0, ret |-> 0,
           pre |-> [i \in Slots |-> ZeroArena], preFreed |-> <<>>,
           preChain |-> NoChain, preDone |-> NoneDone]

Call(op, a, b, n, ret) ==
    [op |-> op, a |-> a, b |-> b, n |-> n, ret |-> ret,
     pre |-> arenas, preFreed |-> sysFreed, preChain |-> chain, preDone |-> done]

\* one more call, within the budget of the model
Tick == ncalls < MaxCalls /\ ncalls' = ncalls + 1

\* ArenaNew after xdefaultAlloc returned p
ArenaNewRes(p, size) ==
    IF p = NULL
    THEN ErrArena(ERR_NO_MEMORY)
    ELSE [memory |-> p, size |-> ToInt(size), pos |-> 0, depth |-> 0,
          err |-> ERR_NO_ERROR]

\* ArenaAlloc on a non-NULL arena a: the arena afterwards and the pointer
ArenaAllocOn(a, size) ==
    IF ~Ok(a)
    THEN [a |-> a, ret |-> NULL]
    ELSE IF ToU64(ToU64(a.pos) + size) > ToU64(a.size)
    THEN [a |-> [a EXCEPT !.err = ERR_NO_MEMORY], ret |-> NULL]
    ELSE [a |-> [a EXCEPT !.pos = ToInt(ToU64(a.pos) + size)],
          ret |-> a.memory + a.pos]

\* ArenaAlloc(a, size) with a a pointer into the variables A
ArenaAllocRes(A, a, size) ==
    IF a = NULL
    THEN [arenas |-> A, ret |-> NULL]
    ELSE LET r == ArenaAllocOn(A[a], size)
         IN  [arenas |-> [A EXCEPT ![a] = r.a], ret |-> r.ret]

\* ArenaTemp(parent, size): the variables afterwards and the returned Arena.
\* The statement under "if (!Ok(*parent))" has no return, so an errored
\* parent falls through to ArenaAlloc.
ArenaTempRes(A, parent, size) ==
    IF parent = NULL
    THEN [arenas |-> A, temp |-> ErrArena(ERR_NULL_PTR)]
    ELSE LET r == ArenaAllocRes(A, parent, size)
         IN  IF r.ret = NULL
             THEN [arenas |-> r.arenas, temp |-> ErrArena(r.arenas[parent].err)]
             ELSE [arenas |-> r.arenas,
                   temp |-> [memory |-> r.ret, size |-> ToInt(size), pos |-> 0,
                             depth |-> r.arenas[parent].depth + 1,
                             err |-> ERR_NO_ERROR]]

\* ArenaReleaseTemp(temp, parent): the possible outcomes (temp and parent
\* may be the same pointer)
ArenaReleaseTempRes(A, temp, parent) ==
    IF temp = NULL \/ parent = NULL
    THEN {[arenas |-> A, ret |-> ERR_NULL_PTR]}
    ELSE IF ~Ok(A[temp])
    THEN {[arenas |-> A, ret |-> A[temp].err]}
    ELSE IF ~Ok(A[parent])
    THEN {[arenas |-> A, ret |-> A[parent].err]}
    ELSE IF A[parent].memory + A[parent].pos - A[temp].size # A[temp].memory
    THEN {[arenas |-> A, ret |-> ERR_ARENA_RELEASE_AFTER_ALLOC]}
    ELSE {[arenas |-> [[A EXCEPT ![parent].pos = v]
                          EXCEPT ![temp].err = ERR_MEMORY_FREED],
           ret |-> ERR_NO_ERROR] : v \in SubInt(A[parent].pos, A[temp].size)}

\* ArenaFree without the test for ERR_MEMORY_FREED
ArenaFreeNoFreedTest(A, a) ==
    IF a = NULL
    THEN [arenas |-> A, ret |-> ERR_NULL_PTR, freed |-> <<>>]
    ELSE IF ~Ok(A[a])
    THEN [arenas |-> A, ret |-> A[a].err, freed |-> <<>>]
    ELSE IF A[a].depth # 0
    THEN [arenas |-> A, ret |-> ERR_TEMP_ARENA_FREE, freed |-> <<>>]
    ELSE [arenas |-> [A EXCEPT ![a].err = ERR_MEMORY_FREED],
          ret |-> ERR_NO_ERROR, freed |-> <<A[a].memory>>]

\* ArenaFree without the test of depth
ArenaFreeNoDepthTest(A, a) ==
    IF a = NULL
    THEN [arenas |-> A, ret |-> ERR_NULL_PTR, freed |-> <<>>]
    ELSE IF A[a].err = ERR_MEMORY_FREED
    THEN [arenas |-> A, ret |-> ERR_DOUBLE_FREE, freed |-> <<>>]
    ELSE IF ~Ok(A[a])
    THEN [arenas |-> A, ret |-> A[a].err, freed |-> <<>>]
    ELSE [arenas |-> [A EXCEPT ![a].err = ERR_MEMORY_FREED],
          ret |-> ERR_NO_ERROR, freed |-> <<A[a].memory>>]

\* ArenaFree(a): the variables afterwards, the result and the pointers
\* handed to xdefaultFree
ArenaFreeRes(A, a) ==
    IF a = NULL
    THEN [arenas |-> A, ret |-> ERR_NULL_PTR, freed |-> <<>>]
    ELSE IF A[a].err = ERR_MEMORY_FREED
    THEN [arenas |-> A, ret |-> ERR_DOUBLE_FREE, freed |-> <<>>]
    ELSE IF ~Ok(A[a])
    THEN [arenas |-> A, ret |-> A[a].err, freed |-> <<>>]
    ELSE IF A[a].depth # 0
    THEN [arenas |-> A, ret |-> ERR_TEMP_ARENA_FREE, freed |-> <<>>]
    ELSE [arenas |-> [A EXCEPT ![a].err = ERR_MEMORY_FREED],
          ret |-> ERR_NO_ERROR, freed |-> <<A[a].memory>>]


\* ================================================================== List
\* The list is one heap block: a ListHeader of four ints followed by the
\* data.  The block is modelled byte by byte (little-endian, as on the
\* machines windows.h builds for); the caller's pointer is the address of
\* the block plus HEADER_SIZE.

ByteMod == Pow2(BitsPerByte)
HEADER_SIZE == 4 * SizeofInt

\* an uninitialised byte of the heap
Indet == 0 - 1

\* the n low bytes of the value v, lowest first
RECURSIVE LeBytes(_, _)
LeBytes(v, n) ==
    IF n = 0 THEN <<>> ELSE <<v % ByteMod>> \o LeBytes(v \div ByteMod, n - 1)

\* the value of the bytes bs, lowest first
RECURSIVE LeValue(_)
LeValue(bs) == IF bs = <<>> THEN 0 ELSE Head(bs) + ByteMod * LeValue(Tail(bs))

\* the int stored at offset off of the block
GetInt(block, off) == ToInt(LeValue(SubSeq(block, off + 1, off + SizeofInt)))

\* memcpy(block + off, src, Len(src)) within the block
MemCpy(block, off, src) ==
    [k \in 1 .. Len(block) |->
        IF k - 1 >= off /\ k - 1 < off + Len(src) THEN src[k - off] ELSE block[k]]

PutInt(block, off, v) == MemCpy(block, off, LeBytes(v % IntMod, SizeofInt))

\* getHeader(list)
getHeader(block) ==
    [length |-> GetInt(block, 0),
     cap |-> GetInt(block, SizeofInt),
     dataSize |-> GetInt(block, 2 * SizeofInt),
     err |-> GetInt(block, 3 * SizeofInt)]

ListLen(block) == getHeader(block).length
ListCap(block) == getHeader(block).cap

\* the bytes of the block from offset off of the list pointer, n of them
DataAt(block, off, n) == SubSeq(block, HEADER_SIZE + off + 1, HEADER_SIZE + off + n)

\* int * int and int + int: signed overflow is undefined, any int may result
MulInt(x, y) == IF (x * y) \in IntRange THEN {x * y} ELSE IntRange
AddInt(x, y) == IF (x + y) \in IntRange THEN {x + y} ELSE IntRange

\* the n bytes of the caller's object at the address addr
CallerBytes(addr, n) == [k \in 1 .. n |-> (addr + k) % ByteMod]

\* the largest block the model's heap hands out for a list
MaxListBlock == HEADER_SIZE + IntMod

\* the least capacity of a list of 2-byte elements whose last element lies
\* more than INT_MAX bytes after the list pointer
FarCap == (IntMax + 1) \div 2 + 1

\* what the callers pass: element sizes, capacities (small ones, the first
\* whose data does not fit an int and the first that does not fit an int),
\* items (u64)
DataSizeArgs == {1, 2, SizeofU64 + 1}
CapArgs == (0 .. MaxCap) \cup {FarCap, IntMax + 1}
ItemArgs == {1, U64Max - 1}

NoList == [state |-> "none", block |-> <<>>]
Undefined == [state |-> "undefined", block |-> <<>>]
Live(block) == [state |-> "live", block |-> block]

\* ListCreate(dataSize, length) when xdefaultAlloc returned p; with p = NULL
\* the memcpy of the header writes through a null pointer
ListCreateRes(p, dataSize, length) ==
    IF p = NULL
    THEN Undefined
    ELSE Live(LeBytes(0, SizeofInt)
              \o LeBytes(ToInt(length) % IntMod, SizeofInt)
              \o LeBytes(ToInt(dataSize) % IntMod, SizeofInt)
              \o LeBytes(ERR_NO_ERROR, SizeofInt)
              \o [k \in 1 .. ToU64(dataSize * length) |-> Indet])

\* the bytes ListAppend copies: from the object item points to when the
\* element is wider than a u64, else the low bytes of item itself
AppendSource(item, size) ==
    IF ToU64(size) > SizeofU64
    THEN CallerBytes(item, ToU64(size))
    ELSE SubSeq(LeBytes(item, SizeofU64), 1, size)

\* ListAppend(list, item): the possible outcomes
ListAppendRes(block, item) ==
    LET header == getHeader(block)
        size == header.dataSize
    IN  IF ~(header.length < header.cap)
        THEN {Live(block)}
        ELSE { IF \/ HEADER_SIZE + length < 0
                  \/ HEADER_SIZE + length + ToU64(size) > Len(block)
               THEN Undefined
               ELSE LET b == MemCpy(block, HEADER_SIZE + length,
                                    AppendSource(item, size))
                    IN  Live(PutInt(b, 0, v[2]))
               : length \in MulInt(header.length, size),
                 v \in {<<0, w>> : w \in AddInt(header.length, 1)} }

\* ListPop(list): the possible outcomes, ret being the offset of the
\* returned address from the list pointer
ListPopRes(block) ==
    LET header == getHeader(block)
    IN  UNION { { [list |-> Live(PutInt(block, 0, v)), ret |-> r]
                  : r \in MulInt(v, header.dataSize) }
                : v \in SubInt(header.length, 1) }

NoListGhost == [dataSize |-> 0, length |-> 0, fresh |-> TRUE, items |-> <<>>]
NoListCall == [op |-> "none", item |-> 0, ret |-> 0, pre |-> NoList]

LTick == lcalls < MaxListCalls /\ lcalls' = lcalls + 1

ListInit ==
    /\ list = NoList
    /\ lghost = NoListGhost
    /\ lcalls = 0
    /\ llast = NoListCall

\* T *l = ListCreate(dataSize, length);
DoListCreate ==
    /\ LTick
    /\ UNCHANGED <<arenaVars, strVars, iterVars, errVars, xaVars>>
    /\ list.state = "none"
    /\ \E dataSize \in DataSizeArgs, length \in CapArgs :
       \E p \in {NULL} \cup
                (IF ToU64(HEADER_SIZE + ToU64(dataSize * length)) <= MaxListBlock
                 THEN {1} ELSE {}) :
          /\ list' = ListCreateRes(p, dataSize, length)
          /\ lghost' = [dataSize |-> dataSize, length |-> length,
                        fresh |-> TRUE, items |-> <<>>]
          /\ llast' = [op |-> "ListCreate", item |-> 0, ret |-> p, pre |-> list]

\* ListAppend(l, item);
DoListAppend ==
    /\ LTick
    /\ UNCHANGED <<arenaVars, strVars, iterVars, errVars, xaVars>>
    /\ list.state = "live"
    /\ \E item \in ItemArgs :
       \E r \in ListAppendRes(list.block, item) :
          /\ list' = r
          /\ lghost' = IF lghost.fresh
                       THEN [lghost EXCEPT !.items = Append(@, item)]
                       ELSE lghost
          /\ llast' = [op |-> "ListAppend", item |-> item, ret |-> 0, pre |-> list]

\* void *e = ListPop(l);
DoListPop ==
    /\ LTick
    /\ UNCHANGED <<arenaVars, strVars, iterVars, errVars, xaVars>>
    /\ list.state = "live"
    /\ \E r \in ListPopRes(list.block) :
          /\ list' = r.list
          /\ llast' = [op |-> "ListPop", item |-> 0, ret |-> r.ret, pre |-> list]
    /\ lghost' = [lghost EXCEPT !.fresh = FALSE, !.items = <<>>]

ListNext ==
    \/ DoListCreate
    \/ DoListAppend
    \/ DoListPop

\* ================================================================ String
\* A String is a pointer, a length (u32) and an error.  Its bytes live in
\* the caller's char array (a NUL-terminated literal at TextBase) or in the
\* block of the arena (at BlockBase).  A char keeps all its CharBit bits
\* (the case folding compares chars with 'a' and 'z'); only the widths of
\* int, u32 and u64 are scaled.

SizeofU32 == 4
CharBit == 8
LowerA == 97
LowerZ == 122
UpperA == 65
UpperZ == 90
CaseGap == 32

U32Mod == Pow2(SizeofU32 * BitsPerByte)
U32Max == U32Mod - 1
CharMod == Pow2(CharBit)

\* conversion of any integer value to u32 (unsigned int)
ToU32(x) == x % U32Mod

\* the value of the char with the code c (char is signed)
SChar(c) == IF c >= CharMod \div 2 THEN c - CharMod ELSE c

TextBase == HeapBase(NArenas + 1)
BlockBase == HeapBase(1)

NoMemory == [text |-> <<>>, block |-> <<>>]

InText(M, p, n) == TextBase <= p /\ p + n <= TextBase + Len(M.text)
InBlock(M, p, n) == BlockBase <= p /\ p + n <= BlockBase + Len(M.block)

\* the n bytes at p belong to one object
Mapped(M, p, n) == n = 0 \/ InText(M, p, n) \/ InBlock(M, p, n)

\* the char at the address p; Indet where there is no initialised byte
CharOf(M, p) ==
    IF InText(M, p, 1) THEN M.text[p - TextBase + 1]
    ELSE IF InBlock(M, p, 1) THEN M.block[p - BlockBase + 1]
    ELSE Indet

Readable(M, p) == CharOf(M, p) # Indet

\* the n bytes at p
BytesAt(M, p, n) == [k \in 1 .. n |-> CharOf(M, p + k - 1)]

\* the n bytes at p and the m bytes at q have no byte in common
Disjoint(p, n, q, m) == n = 0 \/ m = 0 \/ p + n <= q \/ q + m <= p

\* memcpy(dest, src, n) is defined: both ranges lie in an object, the
\* destination in the block of the arena, and they do not overlap
CanCopy(M, dest, src, n) ==
    \/ n = 0
    \/ /\ Mapped(M, src, n)
       /\ InBlock(M, dest, n)
       /\ Disjoint(dest, n, src, n)

\* memcpy(dest, src, n) into the block of the arena
MemWrite(M, dest, bs) == [M EXCEPT !.block = MemCpy(@, dest - BlockBase, bs)]

\* strlen(p): the number of chars before the first NUL (Indet: no NUL is
\* found inside the object p points into)
Strlen(M, p) ==
    LET ends == {n \in 0 .. Len(M.text) : CharOf(M, p + n) = 0}
    IN  IF ~InText(M, p, 1) \/ ends = {} THEN Indet
        ELSE CHOOSE n \in ends : \A m \in ends : n <= m

ZeroString == [str |-> NULL, length |-> 0, err |-> ERR_NO_ERROR]

\* (String){.err = e}: every other field is zero
ErrString(e) == [ZeroString EXCEPT !.err = e]

\* STRING(s): the view of the literal at p
StringOf(M, p) == [str |-> p, length |-> ToU32(Strlen(M, p)), err |-> ERR_NO_ERROR]

\* a loop "for (int i = 0; i < n; i++)" that runs past the index n
\* increments i beyond INT_MAX
LoopOverflows(n) == n > IntMax

Min(x, y) == IF x <= y THEN x ELSE y
Least(S) == CHOOSE x \in S : \A y \in S : x <= y

\* CharAt(s, pos)
CharAt(M, s, pos) ==
    IF ~Ok(s) \/ s.length <= pos
    THEN [panic |-> TRUE, ub |-> FALSE, c |-> 0]
    ELSE [panic |-> FALSE, ub |-> ~Readable(M, s.str + pos),
          c |-> CharOf(M, s.str + pos)]

\* the outcome of a loop over the indices 0 .. n - 1 of s that stops at the
\* first index in hits: ret is what the function returns then, none what it
\* returns when the loop ends
ScanRes(M, s, hits, ret, none) ==
    LET stop == IF hits = {} THEN s.length - 1 ELSE Least(hits)
        scanned == 0 .. stop
    IN  [ret |-> IF hits = {} THEN none ELSE ret,
         ub |-> \/ LoopOverflows(IF hits = {} THEN s.length ELSE stop)
                \/ \E i \in scanned : CharAt(M, s, i).ub,
         panic |-> \E i \in scanned : CharAt(M, s, i).panic,
         reads |-> {s.str + i : i \in scanned}]

Quiet(ret) == [ret |-> ret, ub |-> FALSE, panic |-> FALSE, reads |-> {}]

\* StrCount(s, c)
StrCount(M, s, c) ==
    IF ~Ok(s)
    THEN Quiet(0)
    ELSE LET count == Cardinality({i \in 0 .. (s.length - 1) : CharAt(M, s, i).c = c})
         IN  ScanRes(M, s, {}, 0, count)

\* StrFind(s, c)
StrFind(M, s, c) ==
    IF ~Ok(s)
    THEN Quiet(ToU32(0 - 1))
    ELSE LET hits == {i \in 0 .. (s.length - 1) : CharAt(M, s, i).c = c}
         IN  ScanRes(M, s, hits, IF hits = {} THEN 0 ELSE Least(hits), ToU32(0 - 1))

\* StrCompare(a, b)
StrCompare(M, a, b) ==
    IF ~Ok(a) \/ ~Ok(b)
    THEN Quiet(FALSE)
    ELSE IF a.length # b.length
    THEN Quiet(FALSE)
    ELSE LET hits == {i \in 0 .. (a.length - 1) :
                         CharAt(M, a, i).c # CharAt(M, b, i).c}
             ra == ScanRes(M, a, hits, FALSE, TRUE)
             rb == ScanRes(M, b, hits, FALSE, TRUE)
         IN  [ret |-> ra.ret, ub |-> ra.ub \/ rb.ub,
              panic |-> ra.panic \/ rb.panic, reads |-> ra.reads \cup rb.reads]

\* _strFindWordEx(s, word, wordlen): the inner loop runs while j < wordlen
\* and i + j < s.length, and a mismatch does not end it
strFindWordEx(M, s, word, wordlen) ==
    LET inner(i) == 0 .. (Min(wordlen, s.length - i) - 1)
        first(i) == CharOf(M, s.str + i) = CharOf(M, word)
        found(i) == \A j \in inner(i) : CharOf(M, s.str + i + j) = CharOf(M, word + j)
        hits == {i \in 0 .. (s.length - 1) : first(i) /\ found(i)}
        stop == IF hits = {} THEN s.length - 1 ELSE Least(hits)
        scanned == 0 .. stop
        compared == {i \in scanned : first(i)}
        sreads == {s.str + i : i \in scanned}
                  \cup UNION {{s.str + i + j : j \in inner(i)} : i \in compared}
        wreads == (IF s.length > 0 THEN {word} ELSE {})
                  \cup UNION {{word + j : j \in inner(i)} : i \in compared}
    IN  [ret |-> IF hits = {} THEN ToU32(0 - 1) ELSE Least(hits),
         ub |-> \/ LoopOverflows(IF hits = {} THEN s.length ELSE stop)
                \/ \E p \in sreads \cup wreads : ~Readable(M, p),
         panic |-> FALSE,
         reads |-> sreads]

\* StrFindWord(s, word)
StrFindWord(M, s, word) ==
    LET n == Strlen(M, word)
        r == strFindWordEx(M, s, word, ToInt(n))
    IN  IF n = Indet THEN [r EXCEPT !.ub = TRUE] ELSE r

\* StrFindString(s, word)
StrFindString(M, s, word) == strFindWordEx(M, s, word.str, ToInt(word.length))

\* StrSub(s, start, end)
StrSub(s, start, end) ==
    [str |-> s.str + start, length |-> ToU32(end - start), err |-> s.err]

\* the outcome of a function that returns the String s and leaves the arena
\* a and the memory M
Made(s, a, M, ub) == [s |-> s, a |-> a, M |-> M, ub |-> ub]

\* returnIfError(o)
ReturnedError(o) == [str |-> NULL, length |-> 0, err |-> o.err]

\* StrAlloc(a, s): ap is the pointer a, a the Arena it points to
StrAlloc(ap, a, M, s) ==
    IF s = NULL \/ ap = NULL
    THEN Made(ErrString(ERR_NULL_PTR), a, M, FALSE)
    ELSE IF ~Ok(a)
    THEN Made(ReturnedError(a), a, M, FALSE)
    ELSE LET n == Strlen(M, s)
             length == ToInt(n)
             r == ArenaAllocOn(a, ToU64(length))
         IN  IF n = Indet
             THEN Made(ZeroString, a, M, TRUE)
             ELSE IF r.ret = NULL
             THEN Made(ErrString(ERR_NO_MEMORY), r.a, M, FALSE)
             ELSE IF ~CanCopy(M, r.ret, s, ToU64(length))
             THEN Made(ZeroString, r.a, M, TRUE)
             ELSE Made([str |-> r.ret, length |-> ToU32(length), err |-> ERR_NO_ERROR],
                       r.a, MemWrite(M, r.ret, BytesAt(M, s, length)), FALSE)

\* StrCopy(a, s)
StrCopy(ap, a, M, s) ==
    IF ap = NULL
    THEN Made(ErrString(ERR_NULL_PTR), a, M, FALSE)
    ELSE IF ~Ok(s)
    THEN Made(ReturnedError(s), a, M, FALSE)
    ELSE LET r == ArenaAllocOn(a, s.length)
         IN  IF r.ret = NULL
             THEN Made(ErrString(ERR_NO_MEMORY), r.a, M, FALSE)
             ELSE IF ~CanCopy(M, r.ret, s.str, s.length)
             THEN Made(ZeroString, r.a, M, TRUE)
             ELSE Made([str |-> r.ret, length |-> s.length, err |-> ERR_NO_ERROR],
                       r.a, MemWrite(M, r.ret, BytesAt(M, s.str, s.length)), FALSE)

\* c -= 32 without the test c <= 'z'
UpperCharNoZTest(c) == IF SChar(c) >= LowerA THEN c - CaseGap ELSE c

\* c -= 32 for 'a' .. 'z'
UpperChar(c) == IF SChar(c) >= LowerA /\ SChar(c) <= LowerZ THEN c - CaseGap ELSE c

\* c += 32 for 'A' .. 'Z'
LowerChar(c) == IF SChar(c) >= UpperA /\ SChar(c) <= UpperZ THEN c + CaseGap ELSE c

\* the loop of StrUpper and StrLower: each char of s, read after the copy was
\* made, is written to the copy
Folded(r, s, isUpper) ==
    IF r.ub \/ ~Ok(r.s)
    THEN [r EXCEPT !.s = IF r.ub THEN r.s ELSE ReturnedError(r.s)]
    ELSE LET I == 0 .. (s.length - 1)
             cs == [k \in 1 .. s.length |->
                       LET c == CharAt(r.M, s, k - 1).c
                       IN  IF isUpper THEN UpperChar(c) ELSE LowerChar(c)]
         IN  IF \/ LoopOverflows(s.length)
                \/ \E i \in I : CharAt(r.M, s, i).ub
             THEN [r EXCEPT !.ub = TRUE]
             ELSE [r EXCEPT !.M = MemWrite(r.M, r.s.str, cs)]

\* StrUpper(a, s)
StrUpper(ap, a, M, s) ==
    IF ap = NULL
    THEN Made(ErrString(ERR_NULL_PTR), a, M, FALSE)
    ELSE IF ~Ok(s)
    THEN Made(ReturnedError(s), a, M, FALSE)
    ELSE Folded(StrCopy(ap, a, M, s), s, TRUE)

\* StrLower(a, s)
StrLower(ap, a, M, s) ==
    IF ap = NULL
    THEN Made(ErrString(ERR_NULL_PTR), a, M, FALSE)
    ELSE IF ~Ok(s)
    THEN Made(ReturnedError(s), a, M, FALSE)
    ELSE Folded(StrCopy(ap, a, M, s), s, FALSE)

\* StrConcat without the returnIfError(s2)
StrConcatNoS2Test(ap, a, M, s1, s2) ==
    IF ap = NULL
    THEN Made(ErrString(ERR_NULL_PTR), a, M, FALSE)
    ELSE IF ~Ok(s1)
    THEN Made(ReturnedError(s1), a, M, FALSE)
    ELSE LET length == ToInt(ToU32(s1.length + s2.length))
             r == ArenaAllocOn(a, ToU64(length))
             str == r.ret
         IN  IF \/ ~CanCopy(M, str, s1.str, s1.length)
                \/ ~CanCopy(M, str + s1.length, s2.str, s2.length)
             THEN Made(ZeroString, r.a, M, TRUE)
             ELSE Made([str |-> str, length |-> ToU32(length), err |-> ERR_NO_ERROR],
                       r.a,
                       MemWrite(MemWrite(M, str, BytesAt(M, s1.str, s1.length)),
                                str + s1.length, BytesAt(M, s2.str, s2.length)),
                       FALSE)

\* StrConcat(a, s1, s2): the pointer ArenaAlloc returns is not tested, so
\* with NULL the memcpy writes through a null pointer
StrConcat(ap, a, M, s1, s2) ==
    IF ap = NULL
    THEN Made(ErrString(ERR_NULL_PTR), a, M, FALSE)
    ELSE IF ~Ok(s1)
    THEN Made(ReturnedError(s1), a, M, FALSE)
    ELSE IF ~Ok(s2)
    THEN Made(ReturnedError(s2), a, M, FALSE)
    ELSE LET length == ToInt(ToU32(s1.length + s2.length))
             r == ArenaAllocOn(a, ToU64(length))
             str == r.ret
         IN  IF \/ ~CanCopy(M, str, s1.str, s1.length)
                \/ ~CanCopy(M, str + s1.length, s2.str, s2.length)
             THEN Made(ZeroString, r.a, M, TRUE)
             ELSE Made([str |-> str, length |-> ToU32(length), err |-> ERR_NO_ERROR],
                       r.a,
                       MemWrite(MemWrite(M, str, BytesAt(M, s1.str, s1.length)),
                                str + s1.length, BytesAt(M, s2.str, s2.length)),
                       FALSE)

\* ------------------------------------------------- the caller of strings
\* the callers that only fold case declare one String more
NStrs == MaxStrs + 1
StrSlots == 1 .. NStrs

\* what the callers pass: the chars 'A' and 'a' in texts of up to MaxLen
\* chars and, to fold, also the chars next to the letters and one beyond
\* ASCII
TextChars == {65, 97}
EdgeChars == {64, 90, 91, 96, 122, 123, 200}
Texts == UNION {[1 .. n -> TextChars] : n \in 0 .. MaxLen}
CaseTexts == Texts \cup {<<c>> : c \in EdgeChars}
SArenaSizes == {0, MaxLen, IntMax}
QueryChars == {97}
SubArgs == {<<0, 1>>, <<1, MaxLen>>, <<1, 0>>}
ArenaPtrs == {NULL, 1}

NoFrom == [op |-> "none", x |-> 0, y |-> 0]
NoStrCall ==
    [op |-> "none", ap |-> NULL, x |-> ZeroString, y |-> ZeroString, c |-> 0,
     ret |-> 0, ub |-> FALSE, panic |-> FALSE, reads |-> {},
     preA |-> ZeroArena, preM |-> NoMemory]

StrInit ==
    /\ smem = NoMemory
    /\ sa = ZeroArena
    /\ sap = NULL
    /\ strs = [i \in StrSlots |-> ZeroString]
    /\ nstrs = 0
    /\ sfrom = [i \in StrSlots |-> NoFrom]
    /\ sstate = "none"
    /\ slast = NoStrCall

\* the String variable behind the slot i (0: none)
Arg(i) == IF i = 0 THEN ZeroString ELSE strs[i]

\* String v = f(...); with the outcome r
Declare(op, ap, xi, yi, c, r) ==
    /\ nstrs < NStrs
    /\ slast' = [op |-> op, ap |-> ap, x |-> Arg(xi), y |-> Arg(yi), c |-> c,
                 ret |-> r.s, ub |-> r.ub, panic |-> FALSE, reads |-> {},
                 preA |-> sa, preM |-> smem]
    /\ sstate' = IF r.ub THEN "undefined" ELSE "live"
    /\ sa' = r.a
    /\ smem' = r.M
    /\ UNCHANGED sap
    /\ strs' = [strs EXCEPT ![nstrs + 1] = r.s]
    /\ nstrs' = nstrs + 1
    /\ sfrom' = [sfrom EXCEPT ![nstrs + 1] = [op |-> op, x |-> xi, y |-> yi]]

\* v = f(...); for a function that returns a number or a bool
Ask(op, xi, yi, c, r) ==
    /\ slast' = [op |-> op, ap |-> NULL, x |-> Arg(xi), y |-> Arg(yi), c |-> c,
                 ret |-> r.ret, ub |-> r.ub, panic |-> r.panic, reads |-> r.reads,
                 preA |-> sa, preM |-> smem]
    /\ sstate' = IF r.ub \/ r.panic THEN "undefined" ELSE "live"
    /\ UNCHANGED <<sa, sap, smem, strs, nstrs, sfrom>>

\* char text[] = "..."; String s = STRING(text);
\* Arena arena = ArenaNew(size); Arena *a = &arena;  (or Arena *a = NULL;)
Setup(texts) ==
    /\ sstate = "none"
    /\ UNCHANGED <<arenaVars, listVars, iterVars, errVars, xaVars>>
    /\ \E text \in texts, size \in SArenaSizes, ap \in ArenaPtrs :
       \E p \in xdefaultAlloc(1, size) :
          LET M == [text |-> text \o <<0>>,
                    block |-> IF p = NULL THEN <<>> ELSE [k \in 1 .. size |-> Indet]]
          IN  /\ smem' = M
              /\ sa' = ArenaNewRes(p, size)
              /\ sap' = ap
              /\ strs' = [strs EXCEPT ![1] = StringOf(M, TextBase)]
    /\ nstrs' = 1
    /\ sfrom' = [sfrom EXCEPT ![1] = [op |-> "STRING", x |-> 0, y |-> 0]]
    /\ sstate' = "live"
    /\ UNCHANGED slast

DoStrSetup == Setup(Texts)

DoCaseSetup == Setup(CaseTexts)

\* String v = StrAlloc(a, s);
DoStrAlloc ==
    /\ sstate = "live"
    /\ UNCHANGED <<arenaVars, listVars, iterVars, errVars, xaVars>>
    /\ \E s \in {NULL, TextBase} :
          Declare("StrAlloc", sap, 0, 0, s, StrAlloc(sap, sa, smem, s))

\* String v = StrCopy(a, s);
DoStrCopy ==
    /\ sstate = "live"
    /\ UNCHANGED <<arenaVars, listVars, iterVars, errVars, xaVars>>
    /\ \E xi \in 1 .. nstrs :
          Declare("StrCopy", sap, xi, 0, 0, StrCopy(sap, sa, smem, strs[xi]))

\* String v = StrUpper(a, s);
DoStrUpper ==
    /\ sstate = "live"
    /\ UNCHANGED <<arenaVars, listVars, iterVars, errVars, xaVars>>
    /\ \E xi \in 1 .. nstrs :
          Declare("StrUpper", sap, xi, 0, 0, StrUpper(sap, sa, smem, strs[xi]))

\* String v = StrLower(a, s);
DoStrLower ==
    /\ sstate = "live"
    /\ UNCHANGED <<arenaVars, listVars, iterVars, errVars, xaVars>>
    /\ \E xi \in 1 .. nstrs :
          Declare("StrLower", sap, xi, 0, 0, StrLower(sap, sa, smem, strs[xi]))

\* String v = StrConcat(a, s1, s2);
DoStrConcat ==
    /\ sstate = "live"
    /\ UNCHANGED <<arenaVars, listVars, iterVars, errVars, xaVars>>
    /\ \E xi \in 1 .. nstrs, yi \in 1 .. nstrs :
          Declare("StrConcat", sap, xi, yi, 0,
                  StrConcat(sap, sa, smem, strs[xi], strs[yi]))

\* String v = StrSub(s, start, end);
DoStrSub ==
    /\ sstate = "live"
    /\ UNCHANGED <<arenaVars, listVars, iterVars, errVars, xaVars>>
    /\ \E xi \in 1 .. nstrs, se \in SubArgs :
          Declare("StrSub", NULL, xi, 0, se,
                  Made(StrSub(strs[xi], se[1], se[2]), sa, smem, FALSE))

\* u32 n = StrCount(s, c);
DoStrCount ==
    /\ sstate = "live"
    /\ UNCHANGED <<arenaVars, listVars, iterVars, errVars, xaVars>>
    /\ \E xi \in 1 .. nstrs, c \in QueryChars :
          Ask("StrCount", xi, 0, c, StrCount(smem, strs[xi], c))

\* u32 i = StrFind(s, c);
DoStrFind ==
    /\ sstate = "live"
    /\ UNCHANGED <<arenaVars, listVars, iterVars, errVars, xaVars>>
    /\ \E xi \in 1 .. nstrs, c \in QueryChars :
          Ask("StrFind", xi, 0, c, StrFind(smem, strs[xi], c))

\* u32 i = StrFindWord(s, word); with word a pointer into the text
DoStrFindWord ==
    /\ sstate = "live"
    /\ UNCHANGED <<arenaVars, listVars, iterVars, errVars, xaVars>>
    /\ \E xi \in 1 .. nstrs, k \in 0 .. (Len(smem.text) - 1) :
          Ask("StrFindWord", xi, 0, TextBase + k,
              StrFindWord(smem, strs[xi], TextBase + k))

\* u32 i = StrFindString(s, word);
DoStrFindString ==
    /\ sstate = "live"
    /\ UNCHANGED <<arenaVars, listVars, iterVars, errVars, xaVars>>
    /\ \E xi \in 1 .. nstrs, yi \in 1 .. nstrs :
          Ask("StrFindString", xi, yi, 0,
              StrFindString(smem, strs[xi], strs[yi]))

\* bool b = StrCompare(a, b);
DoStrCompare ==
    /\ sstate = "live"
    /\ UNCHANGED <<arenaVars, listVars, iterVars, errVars, xaVars>>
    /\ \E xi \in 1 .. nstrs, yi \in 1 .. nstrs :
          Ask("StrCompare", xi, yi, 0, StrCompare(smem, strs[xi], strs[yi]))

\* the callers that make Strings declare up to MaxStrs of them
StrNext ==
    \/ DoStrSetup
    \/ nstrs < MaxStrs /\ DoStrAlloc
    \/ nstrs < MaxStrs /\ DoStrCopy
    \/ nstrs < MaxStrs /\ DoStrUpper
    \/ nstrs < MaxStrs /\ DoStrLower
    \/ nstrs < MaxStrs /\ DoStrConcat
    \/ nstrs < MaxStrs /\ DoStrSub

\* the callers that search and compare Strings, made by StrAlloc and StrSub
QueryNext ==
    \/ DoStrSetup
    \/ nstrs < MaxStrs /\ DoStrAlloc
    \/ nstrs < MaxStrs /\ DoStrSub
    \/ DoStrCount
    \/ DoStrFind
    \/ DoStrFindWord
    \/ DoStrFindString
    \/ DoStrCompare

\* the callers that fold the case of the text
CaseNext ==
    \/ DoCaseSetup
    \/ DoStrUpper
    \/ DoStrLower
    \/ DoStrCompare

\* ============================================================ StringIter
\* A StringIter is a String, a cursor pos (u32) and an error.

ZeroIter == [s |-> ZeroString, pos |-> 0, err |-> ERR_NO_ERROR]

\* StrToIterator(s)
StrToIterator(s) == [s |-> s, pos |-> 0, err |-> s.err]

\* StrToIteratorEx(string, length)
StrToIteratorEx(string, length) ==
    [s |-> [str |-> string, length |-> length, err |-> ERR_NO_ERROR],
     pos |-> 0, err |-> ERR_NO_ERROR]

\* the outcome of StrSplit: the String returned and the iterator afterwards
Split(s, it, ub, panic) == [s |-> s, it |-> it, ub |-> ub, panic |-> panic]

\* the loop of StrSplit from the cursor: it stops at the first index in hits
SplitLoop(M, it, hits) ==
    LET start == ToInt(it.pos)
        stop == IF hits = {} THEN it.s.length ELSE Least(hits)
        scanned == it.pos .. (IF hits = {} THEN it.s.length - 1 ELSE stop)
        seg == [str |-> it.s.str + start,
                length |-> ToU32(ToInt(ToU32(stop - ToU32(start)))),
                err |-> ERR_NO_ERROR]
    IN  Split(seg,
              IF hits = {}
              THEN [it EXCEPT !.pos = stop, !.err = ERR_ITERATION_FINISH]
              ELSE [it EXCEPT !.pos = ToU32(stop + 1)],
              \E i \in scanned : CharAt(M, it.s, i).ub,
              \E i \in scanned : CharAt(M, it.s, i).panic)

\* StrSplit without the test of the iterator's error
StrSplitNoErrTest(ip, M, it, delim) ==
    IF ip = NULL
    THEN Split(ErrString(ERR_NULL_PTR), it, FALSE, FALSE)
    ELSE SplitLoop(M, it, {i \in it.pos .. (it.s.length - 1) :
                              CharAt(M, it.s, i).c = delim})

\* StrSplit(iter, delim): ip is the pointer iter, it the StringIter it
\* points to
StrSplit(ip, M, it, delim) ==
    IF ip = NULL
    THEN Split(ErrString(ERR_NULL_PTR), it, FALSE, FALSE)
    ELSE IF ~Ok(it)
    THEN Split(ErrString(it.err), it, FALSE, FALSE)
    ELSE SplitLoop(M, it, {i \in it.pos .. (it.s.length - 1) :
                              CharAt(M, it.s, i).c = delim})

\* ------------------------------------------------ the caller of StrSplit
\* what the callers pass: texts of ',' and 'a' of up to MaxSplitLen chars,
\* and one text longer than INT_MAX with its only ',' beyond INT_MAX
SplitChars == {44, 97}
LongText == [k \in 1 .. (IntMax + 3) |-> IF k = IntMax + 2 THEN 44 ELSE 97]
SplitTexts ==
    UNION {[1 .. n -> SplitChars] : n \in 0 .. MaxSplitLen} \cup {LongText}
MaxSplits == MaxSplitLen + 2
IterPtrs == {NULL, 1}

NoSplitCall ==
    [op |-> "none", ip |-> NULL, delim |-> 0, ret |-> ZeroString,
     ub |-> FALSE, panic |-> FALSE, pre |-> ZeroIter]

\* the memory of these callers: the text, and no arena
IterMem == [text |-> itext, block |-> <<>>]

IterInit ==
    /\ itext = <<>>
    /\ iter = ZeroIter
    /\ istate = "none"
    /\ isegs = <<>>
    /\ ilast = NoSplitCall

\* char text[] = "..."; StringIter it = StrToIterator(s); with s the view
\* STRING(text) or a String that a failed call returned
DoStrToIterator ==
    /\ istate = "none"
    /\ UNCHANGED <<arenaVars, listVars, strVars, errVars, xaVars>>
    /\ \E text \in SplitTexts :
          LET M == [text |-> text \o <<0>>, block |-> <<>>]
          IN  /\ itext' = M.text
              /\ \E s \in {StringOf(M, TextBase), ErrString(ERR_NO_MEMORY),
                           ErrString(ERR_NULL_PTR)} :
                    /\ iter' = StrToIterator(s)
                    /\ ilast' = [NoSplitCall EXCEPT !.op = "StrToIterator", !.ret = s]
    /\ istate' = "live"
    /\ UNCHANGED isegs

\* char text[] = "..."; StringIter it = StrToIteratorEx(text, length);
DoStrToIteratorEx ==
    /\ istate = "none"
    /\ UNCHANGED <<arenaVars, listVars, strVars, errVars, xaVars>>
    /\ \E text \in SplitTexts, length \in 0 .. MaxSplitLen :
          /\ length <= Len(text)
          /\ itext' = text \o <<0>>
          /\ iter' = StrToIteratorEx(TextBase, length)
          /\ ilast' = [NoSplitCall EXCEPT !.op = "StrToIteratorEx",
                                          !.ret = iter'.s]
    /\ istate' = "live"
    /\ UNCHANGED isegs

\* String seg = StrSplit(&it, delim);
DoStrSplit ==
    /\ istate = "live"
    /\ Len(isegs) < MaxSplits
    /\ UNCHANGED <<arenaVars, listVars, strVars, errVars, xaVars>>
    /\ \E ip \in IterPtrs, delim \in SplitChars :
          LET r == StrSplit(ip, IterMem, iter, delim)
          IN  /\ iter' = r.it
              /\ istate' = IF r.ub \/ r.panic THEN "undefined" ELSE "live"
              /\ isegs' = Append(isegs, [ip |-> ip, delim |-> delim, seg |-> r.s])
              /\ ilast' = [op |-> "StrSplit", ip |-> ip, delim |-> delim,
                           ret |-> r.s, ub |-> r.ub, panic |-> r.panic,
                           pre |-> iter]
    /\ UNCHANGED itext

IterNext ==
    \/ DoStrToIterator
    \/ DoStrToIteratorEx
    \/ DoStrSplit

\* ------------------------------------------------------------ the caller
ArenaInit ==
    /\ arenas = [i \in Slots |-> ZeroArena]
    /\ narenas = 0
    /\ origin = [i \in Slots |-> NoOrigin]
    /\ chain = NoChain
    /\ done = NoneDone
    /\ sysFreed = <<>>
    /\ ncalls = 0
    /\ last = NoCall

\* Arena x = ArenaNew(size);
DoArenaNew ==
    /\ Tick
    /\ UNCHANGED <<listVars, strVars, iterVars, errVars, xaVars>>
    /\ narenas < NArenas
    /\ \E size \in SizeArgs :
       \E p \in xdefaultAlloc(narenas + 1, size) :
          /\ arenas' = [arenas EXCEPT ![narenas + 1] = ArenaNewRes(p, size)]
          /\ last' = Call("ArenaNew", narenas + 1, 0, size, p)
    /\ narenas' = narenas + 1
    /\ origin' = [origin EXCEPT ![narenas + 1] =
                      [kind |-> "root", parent |-> 0, pos0 |-> 0]]
    /\ chain' = NoChain
    /\ UNCHANGED <<done, sysFreed>>

\* void *p = ArenaAlloc(a, size);
DoArenaAlloc ==
    /\ Tick
    /\ UNCHANGED <<listVars, strVars, iterVars, errVars, xaVars>>
    /\ \E a \in DeclaredPtrs, size \in SizeArgs :
          LET r == ArenaAllocRes(arenas, a, size)
          IN  /\ arenas' = r.arenas
              /\ last' = Call("ArenaAlloc", a, 0, size, r.ret)
    /\ chain' = NoChain
    /\ UNCHANGED <<narenas, origin, done, sysFreed>>

\* Arena x = ArenaTemp(parent, size);
DoArenaTemp ==
    /\ Tick
    /\ UNCHANGED <<listVars, strVars, iterVars, errVars, xaVars>>
    /\ narenas < NArenas
    /\ \E parent \in DeclaredPtrs, size \in SizeArgs :
          LET r == ArenaTempRes(arenas, parent, size)
              t == narenas + 1
          IN  /\ arenas' = [r.arenas EXCEPT ![t] = r.temp]
              /\ last' = Call("ArenaTemp", t, parent, size, r.temp.memory)
              /\ origin' = [origin EXCEPT ![t] =
                                [kind |-> "temp", parent |-> parent,
                                 pos0 |-> IF parent = NULL THEN 0
                                          ELSE arenas[parent].pos]]
              /\ chain' = IF ~Ok(r.temp) THEN NoChain
                          ELSE IF chain.parent = parent
                          THEN [chain EXCEPT !.temps = Append(@, t)]
                          ELSE [parent |-> parent, temps |-> <<t>>]
    /\ narenas' = narenas + 1
    /\ UNCHANGED <<done, sysFreed>>

\* the call releases the region opened last in the chain, from its parent
ReleasesTop(c, temp, parent) ==
    /\ c.temps # <<>>
    /\ c.parent = parent
    /\ c.temps[Len(c.temps)] = temp

\* error e = ArenaReleaseTemp(temp, parent);
DoArenaReleaseTemp ==
    /\ Tick
    /\ UNCHANGED <<listVars, strVars, iterVars, errVars, xaVars>>
    /\ \E temp \in DeclaredPtrs, parent \in DeclaredPtrs :
       \E r \in ArenaReleaseTempRes(arenas, temp, parent) :
          /\ arenas' = r.arenas
          /\ last' = Call("ArenaReleaseTemp", temp, parent, 0, r.ret)
          /\ chain' = IF ReleasesTop(chain, temp, parent)
                      THEN [chain EXCEPT !.temps = SubSeq(@, 1, Len(@) - 1)]
                      ELSE NoChain
          /\ done' = IF r.ret = ERR_NO_ERROR
                     THEN [done EXCEPT !.released = @ \cup {<<temp, parent>>}]
                     ELSE done
    /\ UNCHANGED <<narenas, origin, sysFreed>>

\* error e = ArenaFree(a);
DoArenaFree ==
    /\ Tick
    /\ UNCHANGED <<listVars, strVars, iterVars, errVars, xaVars>>
    /\ \E a \in DeclaredPtrs :
          LET r == ArenaFreeRes(arenas, a)
          IN  /\ arenas' = r.arenas
              /\ sysFreed' = sysFreed \o r.freed
              /\ last' = Call("ArenaFree", a, 0, 0, r.ret)
              /\ done' = IF r.ret = ERR_NO_ERROR
                         THEN [done EXCEPT !.freed = @ \cup {a}]
                         ELSE done
    /\ chain' = NoChain
    /\ UNCHANGED <<narenas, origin>>

ArenaNext ==
    \/ DoArenaNew
    \/ DoArenaAlloc
    \/ DoArenaTemp
    \/ DoArenaReleaseTemp
    \/ DoArenaFree

\* ================================================================ XError
\* error_msgs is an array of NumErrors pointers to the messages.

SizeofPtr == 8
NumErrors == 11

error_msgs ==
    << "No error",
       "Failed to read from file",
       "Out of memory",
       "Memory marked as free",
       "Multiple frees",
       "Temporary arena was freed after parent allocations",
       "Cannot free temporary arena",
       "List surpassed capacity",
       "Iterator is empty",
       "File not found",
       "NULL pointer exception" >>

\* sizeof(error_msgs), in bytes
SizeofErrorMsgs == NumErrors * SizeofPtr

\* XError(e): e is converted to size_t for the comparison; panic does not
\* return; reading error_msgs[e] beyond the array is undefined
XError(e) ==
    IF ToU64(e) > SizeofErrorMsgs
    THEN [panic |-> TRUE, ub |-> FALSE, ret |-> ""]
    ELSE IF e \in 0 .. (NumErrors - 1)
    THEN [panic |-> FALSE, ub |-> FALSE, ret |-> error_msgs[e + 1]]
    ELSE [panic |-> FALSE, ub |-> TRUE, ret |-> ""]

\* the values the callers pass: the codes, and MaxErr values below the
\* first code and above sizeof(error_msgs)
ErrArgs == (0 - MaxErr) .. (SizeofErrorMsgs + MaxErr)

NoErrCall == [op |-> "none", e |-> 0, panic |-> FALSE, ub |-> FALSE, ret |-> ""]

ErrInit ==
    /\ xstate = "running"
    /\ xcalls = 0
    /\ xlast = NoErrCall

\* char *msg = XError(e);
DoXError ==
    /\ xstate = "running"
    /\ xcalls < MaxErrCalls
    /\ xcalls' = xcalls + 1
    /\ UNCHANGED <<arenaVars, listVars, strVars, iterVars, xaVars>>
    /\ \E e \in ErrArgs :
          LET r == XError(e)
          IN  /\ xlast' = [op |-> "XError", e |-> e, panic |-> r.panic,
                           ub |-> r.ub, ret |-> r.ret]
              /\ xstate' = IF r.panic THEN "exited"
                           ELSE IF r.ub THEN "undefined"
                           ELSE "running"

ErrNext == DoXError

\* ===================================================== the arena of libx.c
\* src/libx.c holds an earlier revision of the arena: sizes are int, the
\* functions test neither their pointers nor the error of the arena, and
\* XArenaFree takes the Arena by value.

\* XArenaNew(size) after xdefaultAlloc returned m; depth is not named in the
\* compound literal and is zero
XArenaNew(m, size) ==
    IF m = NULL
    THEN ErrArena(ERR_NO_MEMORY)
    ELSE [memory |-> m, size |-> size, pos |-> 0, depth |-> 0,
          err |-> ERR_NO_ERROR]

\* XArenaAlloc(a, size): the possible outcomes (a->pos + size is an int sum)
XArenaAlloc(a, size) ==
    { IF sum > a.size
      THEN [a |-> [a EXCEPT !.err = ERR_NO_MEMORY], ret |-> NULL]
      ELSE [a |-> [a EXCEPT !.pos = sum], ret |-> a.memory + a.pos]
      : sum \in AddInt(a.pos, size) }

\* XArenaTemp(parent, size): the possible outcomes
XArenaTemp(parent, size) ==
    { IF r.ret = NULL
      THEN [parent |-> r.a, temp |-> ErrArena(r.a.err)]
      ELSE [parent |-> r.a,
            temp |-> [memory |-> r.ret, size |-> size, pos |-> 0, depth |-> 0,
                      err |-> ERR_NO_ERROR]]
      : r \in XArenaAlloc(parent, size) }

\* XArenaReleaseTemp(temp, parent) on two different variables: the possible
\* outcomes
XArenaReleaseTemp(temp, parent) ==
    IF parent.memory + parent.pos - temp.size # temp.memory
    THEN {[temp |-> temp, parent |-> parent, ret |-> ERR_ARENA_RELEASE_AFTER_ALLOC]}
    ELSE {[temp |-> [temp EXCEPT !.err = ERR_MEMORY_FREED],
           parent |-> [parent EXCEPT !.pos = d],
           ret |-> ERR_NO_ERROR] : d \in SubInt(parent.pos, temp.size)}

\* XArenaFree(a): a is a copy of the caller's variable, so the assignment
\* a.err = ERR_MEMORY_FREED does not reach the variable; a is the variable
\* after the call
XArenaFree(a) ==
    IF a.err = ERR_MEMORY_FREED
    THEN [a |-> a, ret |-> ERR_DOUBLE_FREE, freed |-> <<>>]
    ELSE IF a.depth # 0
    THEN [a |-> a, ret |-> ERR_TEMP_ARENA_FREE, freed |-> <<>>]
    ELSE [a |-> a, ret |-> ERR_NO_ERROR, freed |-> <<a.memory>>]

XSlots == 1 .. MaxXCalls
XDeclared == 1 .. nxarenas

\* the sizes the callers pass (int)
XSizeArgs == (0 - 1) .. MaxSize

\* the blocks the system allocator handed out and did not get back
XHeapLive(A, n, freed) ==
    {A[i].memory : i \in {j \in 1 .. n : A[j].memory = HeapBase(j)}}
       \ {freed[k] : k \in 1 .. Len(freed)}

NoXCall == [op |-> "none", a |-> 0, b |-> 0, n |-> 0, ret |-> 0,
            preFreed |-> <<>>, preDone |-> {}]

XCall(op, a, b, n, ret) ==
    [op |-> op, a |-> a, b |-> b, n |-> n, ret |-> ret,
     preFreed |-> xfreed, preDone |-> xdone]

XTick ==
    /\ xastate = "live"
    /\ xacalls < MaxXCalls
    /\ xacalls' = xacalls + 1
    /\ UNCHANGED <<arenaVars, listVars, strVars, iterVars, errVars>>

XArenaInit ==
    /\ xarenas = [i \in XSlots |-> ZeroArena]
    /\ nxarenas = 0
    /\ xfreed = <<>>
    /\ xdone = {}
    /\ xastate = "live"
    /\ xacalls = 0
    /\ xalast = NoXCall

\* Arena x = XArenaNew(size);
DoXArenaNew ==
    /\ XTick
    /\ \E size \in XSizeArgs :
       \E m \in xdefaultAlloc(nxarenas + 1, ToU64(size)) :
          /\ xarenas' = [xarenas EXCEPT ![nxarenas + 1] = XArenaNew(m, size)]
          /\ xalast' = XCall("XArenaNew", nxarenas + 1, 0, size, m)
    /\ nxarenas' = nxarenas + 1
    /\ UNCHANGED <<xfreed, xdone, xastate>>

\* void *p = XArenaAlloc(&a, size);
DoXArenaAlloc ==
    /\ XTick
    /\ \E a \in XDeclared, size \in XSizeArgs :
       \E r \in XArenaAlloc(xarenas[a], size) :
          /\ xarenas' = [xarenas EXCEPT ![a] = r.a]
          /\ xalast' = XCall("XArenaAlloc", a, 0, size, r.ret)
    /\ UNCHANGED <<nxarenas, xfreed, xdone, xastate>>

\* Arena t = XArenaTemp(&parent, size);
DoXArenaTemp ==
    /\ XTick
    /\ \E parent \in XDeclared, size \in XSizeArgs :
       \E r \in XArenaTemp(xarenas[parent], size) :
          /\ xarenas' = [xarenas EXCEPT ![parent] = r.parent,
                                        ![nxarenas + 1] = r.temp]
          /\ xalast' = XCall("XArenaTemp", nxarenas + 1, parent, size, r.temp.memory)
    /\ nxarenas' = nxarenas + 1
    /\ UNCHANGED <<xfreed, xdone, xastate>>

\* error e = XArenaReleaseTemp(&temp, &parent);
DoXArenaReleaseTemp ==
    /\ XTick
    /\ \E temp \in XDeclared :
       \E parent \in XDeclared \ {temp} :
       \E r \in XArenaReleaseTemp(xarenas[temp], xarenas[parent]) :
          /\ xarenas' = [xarenas EXCEPT ![temp] = r.temp, ![parent] = r.parent]
          /\ xalast' = XCall("XArenaReleaseTemp", temp, parent, 0, r.ret)
    /\ UNCHANGED <<nxarenas, xfreed, xdone, xastate>>

\* error e = XArenaFree(a); xdefaultFree of a pointer that is not a block
\* the allocator handed out and did not get back is undefined
DoXArenaFree ==
    /\ XTick
    /\ \E a \in XDeclared :
          LET r == XArenaFree(xarenas[a])
          IN  /\ xarenas' = [xarenas EXCEPT ![a] = r.a]
              /\ xfreed' = xfreed \o r.freed
              /\ xdone' = IF r.ret = ERR_NO_ERROR THEN xdone \cup {a} ELSE xdone
              /\ xastate' = IF \E k \in 1 .. Len(r.freed) :
                                  /\ r.freed[k] # NULL
                                  /\ r.freed[k] \notin XHeapLive(xarenas, nxarenas, xfreed)
                             THEN "undefined" ELSE "live"
              /\ xalast' = XCall("XArenaFree", a, 0, 0, r.ret)
    /\ UNCHANGED nxarenas

XArenaNext ==
    \/ DoXArenaNew
    \/ DoXArenaAlloc
    \/ DoXArenaTemp
    \/ DoXArenaReleaseTemp
    \/ DoXArenaFree

Init == ArenaInit /\ ListInit /\ StrInit /\ IterInit /\ ErrInit /\ XArenaInit

\* the callers of the arena
Spec == Init /\ [][ArenaNext]_vars

\* the callers of the list
ListSpec == Init /\ [][ListNext]_vars

\* the callers that make strings
StrSpec == Init /\ [][StrNext]_vars

\* the callers that search strings
QuerySpec == Init /\ [][QueryNext]_vars

\* the callers of the case folding
CaseSpec == Init /\ [][CaseNext]_vars

\* the callers of the iterator
IterSpec == Init /\ [][IterNext]_vars
ErrSpec == Init /\ [][ErrNext]_vars

\* the callers of the arena of libx.c
XArenaSpec == Init /\ [][XArenaNext]_vars

\* ================================================================ claims
\* The claims are stated on the ghost `last`: the call made last, with the
\* variables as they were before it.

IsTemp(i) == origin[i].kind = "temp"

\* the variable x was carved, directly or transitively, out of t
RECURSIVE CarvedFrom(_, _)
CarvedFrom(x, t) ==
    /\ x # NULL
    /\ IsTemp(x)
    /\ \/ origin[x].parent = t
       \/ CarvedFrom(origin[x].parent, t)

\* the n bytes at p and the buffer of the arena T have a byte in common
Overlaps(p, n, T) ==
    /\ n > 0
    /\ T.size > 0
    /\ p < T.memory + T.size
    /\ T.memory < p + n

\* the arena a satisfies the bounds on pos
WellFormed(a) == 0 <= a.pos /\ a.pos <= a.size

\* the last call was an ArenaAlloc or ArenaTemp that succeeded
AllocSucceeded ==
    \/ last.op = "ArenaAlloc" /\ last.ret # NULL
    \/ last.op = "ArenaTemp" /\ Ok(arenas[last.a])

\* the arena that call allocated from
AllocTarget == IF last.op = "ArenaAlloc" THEN last.a ELSE last.b

\* C1: with T1 then T2 opened from P and both outstanding, releasing T1
\* returns ERR_ARENA_RELEASE_AFTER_ALLOC and changes no arena.
C1_ReleaseBeforeSibling ==
    \A p \in Declared, t1 \in Declared, t2 \in Declared :
        ( /\ last.op = "ArenaReleaseTemp" /\ last.a = t1 /\ last.b = p
          /\ IsTemp(t1) /\ origin[t1].parent = p
          /\ IsTemp(t2) /\ origin[t2].parent = p
          /\ t1 < t2
          /\ Ok(last.pre[p]) /\ Ok(last.pre[t1]) /\ Ok(last.pre[t2]) )
        => /\ last.ret = ERR_ARENA_RELEASE_AFTER_ALLOC
           /\ arenas = last.pre

\* C2: releasing the region opened last from P, when nothing but opening
\* regions from P and releasing them in reverse order happened since the
\* first was opened, succeeds, lowers P.pos by the size of the region and
\* brings P.pos back to what it was before the region was opened.
C2_ReleaseInReverseOrder ==
    ( /\ last.op = "ArenaReleaseTemp"
      /\ ReleasesTop(last.preChain, last.a, last.b) )
    => /\ last.ret = ERR_NO_ERROR
       /\ arenas[last.b].pos = last.pre[last.b].pos - last.pre[last.a].size
       /\ arenas[last.b].pos = origin[last.a].pos0

\* C3: no successful ArenaAlloc or ArenaTemp on an arena other than T and
\* the regions carved out of T returns bytes of the buffer of a temporary
\* region T that has not been released.
C3_ExclusiveOwnership ==
    AllocSucceeded =>
        \A t \in Declared :
            ( /\ IsTemp(t)
              /\ ~(last.op = "ArenaTemp" /\ last.a = t)
              /\ Ok(last.pre[t])
              /\ AllocTarget # t
              /\ ~CarvedFrom(AllocTarget, t) )
            => ~Overlaps(last.ret, last.n, last.pre[t])

\* C4: 0 <= pos <= size for every arena, and pos decreases only by a
\* successful ArenaReleaseTemp with that arena as the parent.
C4_ArenaBounds ==
    \A i \in Declared :
        /\ 0 <= arenas[i].pos
        /\ arenas[i].pos <= arenas[i].size
        /\ arenas[i].pos < last.pre[i].pos
           => /\ last.op = "ArenaReleaseTemp"
              /\ last.b = i
              /\ last.ret = ERR_NO_ERROR

\* C5: an ArenaAlloc(a, n) with a.pos + n > a.size, on an arena without error
\* and with 0 <= pos <= size, fails, keeps pos and sets ERR_NO_MEMORY; every
\* ArenaAlloc after that fails and changes nothing.
C5_FailedAllocSticky ==
    (last.op = "ArenaAlloc" /\ last.a # NULL) =>
        LET pre == last.pre[last.a]
            now == arenas[last.a]
        IN  /\ (Ok(pre) /\ WellFormed(pre) /\ pre.pos + last.n > pre.size)
               => /\ last.ret = NULL
                  /\ now.pos = pre.pos
                  /\ now.err = ERR_NO_MEMORY
            /\ pre.err = ERR_NO_MEMORY
               => /\ last.ret = NULL
                  /\ now = pre

C7_TempFreeAnyState ==
    (last.op = "ArenaFree" /\ last.a # NULL /\ last.pre[last.a].depth # 0)
    => /\ last.ret = ERR_TEMP_ARENA_FREE
       /\ sysFreed = last.preFreed
       /\ arenas = last.pre

\* C7 as amended: ArenaFree on an arena of depth # 0 frees nothing and
\* changes nothing; it returns ERR_TEMP_ARENA_FREE when the region carries
\* no error, ERR_DOUBLE_FREE when it was released, and the region's own
\* error otherwise.
C7_TempFree ==
    (last.op = "ArenaFree" /\ last.a # NULL /\ last.pre[last.a].depth # 0)
    => /\ sysFreed = last.preFreed
       /\ arenas = last.pre
       /\ last.ret # ERR_NO_ERROR
       /\ last.ret = ERR_TEMP_ARENA_FREE <=> Ok(last.pre[last.a])
       /\ last.pre[last.a].err = ERR_MEMORY_FREED => last.ret = ERR_DOUBLE_FREE
       /\ last.pre[last.a].err \notin {ERR_NO_ERROR, ERR_MEMORY_FREED}
          => last.ret = last.pre[last.a].err

\* ArenaFree was called on a temporary region that carries no error
C7_Witness ==
    /\ last.op = "ArenaFree"
    /\ last.a # NULL
    /\ last.pre[last.a].depth # 0
    /\ Ok(last.pre[last.a])
    /\ last.ret = ERR_TEMP_ARENA_FREE

\* C8: a successful ArenaTemp(parent, n) advances parent.pos by n and returns
\* the arena (parent.memory + old pos, n, 0, parent.depth + 1, no error); with
\* a NULL or errored parent, or one that lacks n free bytes, the result
\* carries an error and parent.pos is unchanged (for a parent with
\* 0 <= pos <= size).
C8_TempIsAlloc ==
    last.op = "ArenaTemp" =>
        LET t == arenas[last.a]
            n == last.n
        IN  /\ last.b = NULL => ~Ok(t)
            /\ (last.b # NULL /\ WellFormed(last.pre[last.b])) =>
                 LET pre == last.pre[last.b]
                     now == arenas[last.b]
                 IN  /\ Ok(t) => /\ now.pos = pre.pos + n
                                 /\ t.memory = pre.memory + pre.pos
                                 /\ t.size = n
                                 /\ t.pos = 0
                                 /\ t.depth = pre.depth + 1
                     /\ (~Ok(pre) \/ pre.pos + n > pre.size)
                        => /\ ~Ok(t)
                           /\ now.pos = pre.pos

\* C9: for a list created with a capacity that fits an int,
\* 0 <= ListLen <= ListCap after any ListAppend and ListPop calls, and
\* ListCap stays the capacity the list was created with.
C9_ListLenBounds ==
    (list.state = "live" /\ lghost.length <= IntMax)
    => /\ 0 <= ListLen(list.block)
       /\ ListLen(list.block) <= ListCap(list.block)
       /\ ListCap(list.block) = lghost.length

\* the elements a list of capacity c, created for elements of n bytes, holds
\* after the items were appended to it
HoldsFirst(block, items, c, n) ==
    \A k \in 0 .. (c - 1) : DataAt(block, k * n, n) = AppendSource(items[k + 1], n)

\* C10: ListAppend on a list whose length equals its capacity changes
\* nothing; after capacity + 1 appends to a fresh list ListLen is the
\* capacity and the list holds the first capacity items.
C10_AppendWhenFull ==
    /\ ( /\ llast.op = "ListAppend"
         /\ ListLen(llast.pre.block) = ListCap(llast.pre.block) )
       => list = llast.pre
    /\ ( /\ list.state = "live"
         /\ lghost.fresh
         /\ Len(lghost.items) >= lghost.length + 1 )
       => /\ ListLen(list.block) = lghost.length
          /\ HoldsFirst(list.block, lghost.items, lghost.length, lghost.dataSize)

\* before the last call: the root arenas ArenaFree succeeded on and the
\* temporary regions that ArenaReleaseTemp succeeded on with their parent
FreedRoots == {t \in last.preDone.freed : ~IsTemp(t)}
ReleasedTemps ==
    {pr[1] : pr \in {q \in last.preDone.released :
                        IsTemp(q[1]) /\ origin[q[1]].parent = q[2]}}

\* C17: after ArenaFree succeeded on a root arena or ArenaReleaseTemp on a
\* temporary region, no ArenaAlloc or ArenaTemp on that arena or on a region
\* carved, directly or transitively, out of it succeeds, and no successful
\* allocation returns bytes of a block that was freed.
C17_NoAllocAfterFree ==
    AllocSucceeded =>
        /\ \A t \in FreedRoots \cup ReleasedTemps :
              /\ AllocTarget # t
              /\ ~CarvedFrom(AllocTarget, t)
        /\ \A t \in FreedRoots : ~Overlaps(last.ret, last.n, last.pre[t])

\* before the last call the list was live with the header it was created
\* with, elements of at most a machine word and n elements, n >= 0
WordList(block) ==
    /\ llast.pre.state = "live"
    /\ block = llast.pre.block
    /\ getHeader(block).dataSize = lghost.dataSize
    /\ getHeader(block).cap = ToInt(lghost.length)
    /\ lghost.dataSize >= 1
    /\ lghost.dataSize <= SizeofU64
    /\ getHeader(block).length >= 0

\* the elements 0 .. n - 1 of the list are what they were before the last call
KeepsFirst(n) ==
    \A k \in 0 .. (n - 1) :
        DataAt(list.block, k * lghost.dataSize, lghost.dataSize)
           = DataAt(llast.pre.block, k * lghost.dataSize, lghost.dataSize)

\* C18: on a list of elements of at most a machine word, a ListAppend below
\* the capacity stores the item at index ListLen and increments ListLen, and
\* a ListPop on a list that is not empty decrements ListLen and returns the
\* address list + ListLen * elementSize; both leave the elements below that
\* index, and ListPop the popped element too, as they were - so a pop
\* returns the element appended last and not yet popped, with its value.
C18_BoundedLifo ==
    \A block \in {llast.pre.block} :
        LET n == getHeader(block).length
            size == lghost.dataSize
        IN  /\ ( /\ llast.op = "ListAppend"
                 /\ WordList(block)
                 /\ n < getHeader(block).cap )
               => /\ list.state = "live"
                  /\ ListLen(list.block) = n + 1
                  /\ ListCap(list.block) = getHeader(block).cap
                  /\ DataAt(list.block, n * size, size)
                        = AppendSource(llast.item, size)
                  /\ KeepsFirst(n)
            /\ ( /\ llast.op = "ListPop"
                 /\ WordList(block)
                 /\ n > 0 )
               => /\ list.state = "live"
                  /\ ListLen(list.block) = n - 1
                  /\ ListCap(list.block) = getHeader(block).cap
                  /\ llast.ret = (n - 1) * size
                  /\ KeepsFirst(n)

\* ------------------------------------------------------- claims on strings
\* The claims are stated on the ghost `slast`: the string call made last,
\* its arguments and result, the arena and the memory before it.

\* the last call was one of StrCopy, StrUpper, StrLower and StrConcat, with
\* an arena and with an input String that carries an error
PropagatesError ==
    /\ slast.op \in {"StrCopy", "StrUpper", "StrLower", "StrConcat"}
    /\ slast.ap # NULL
    /\ \/ ~Ok(slast.x)
       \/ slast.op = "StrConcat" /\ ~Ok(slast.y)

\* C11: StrCopy, StrUpper, StrLower and StrConcat, called with an arena and
\* with an input String that carries an error, return a String with that
\* error (of the first such input) and length 0 and leave the arena and its
\* memory as they were.
C11_ErrorPropagation ==
    PropagatesError
    => /\ ~slast.ub
       /\ slast.ret.err = (IF ~Ok(slast.x) THEN slast.x.err ELSE slast.y.err)
       /\ slast.ret.length = 0
       /\ sa = slast.preA
       /\ smem = slast.preM

\* StrConcat(arena, valid, errored) was called on an arena without error
C11_Witness ==
    /\ slast.op = "StrConcat"
    /\ slast.ap # NULL
    /\ Ok(slast.preA)
    /\ Ok(slast.x)
    /\ slast.x.length > 0
    /\ ~Ok(slast.y)
    /\ slast.ret.err = slast.y.err

\* the n bytes at w occur in s at index i, in full
OccursAt(M, s, w, n, i) ==
    /\ i + n <= s.length
    /\ \A j \in 0 .. (n - 1) : CharOf(M, s.str + i + j) = CharOf(M, w + j)

\* every byte of the String s can be read
Viewable(M, s) == \A i \in 0 .. (s.length - 1) : Readable(M, s.str + i)

\* the last call searched a String without error for a word of n >= 1 bytes
\* at w; both can be read
WordSearch(w, n) ==
    /\ Ok(slast.x)
    /\ Viewable(slast.preM, slast.x)
    /\ n >= 1
    /\ \A j \in 0 .. (n - 1) : Readable(slast.preM, w + j)

\* what a search of slast.x for the n bytes at w has to return
FirstOccurrence(w, n) ==
    LET at == {i \in 0 .. (slast.x.length - 1) :
                  OccursAt(slast.preM, slast.x, w, n, i)}
    IN  IF at = {} THEN ToU32(0 - 1) ELSE Least(at)

\* C14: StrFindWord(s, word) and StrFindString(s, word) return the first
\* index of s at which the whole word occurs, and -1 when it occurs nowhere in
\* full, also when only a proper prefix of it matches at the end of s.
C14_FindWholeWord ==
    /\ (/\ slast.op = "StrFindWord"
        /\ Strlen(slast.preM, slast.c) # Indet
        /\ WordSearch(slast.c, Strlen(slast.preM, slast.c)))
       => /\ ~slast.ub
          /\ ~slast.panic
          /\ slast.ret = FirstOccurrence(slast.c, Strlen(slast.preM, slast.c))
    /\ (/\ slast.op = "StrFindString"
        /\ Ok(slast.y)
        /\ WordSearch(slast.y.str, slast.y.length))
       => /\ ~slast.ub
          /\ ~slast.panic
          /\ slast.ret = FirstOccurrence(slast.y.str, slast.y.length)

\* slot j was declared as op(a, slot i)
FoldOf(j, op, i) == sfrom[j].op = op /\ sfrom[j].x = i

\* a String without error whose bytes can be read and are ASCII
Ascii(s) ==
    /\ Ok(s)
    /\ Viewable(smem, s)
    /\ \A i \in 0 .. (s.length - 1) : CharOf(smem, s.str + i) < 2 ^ (CharBit - 1)

Same(s, t) == StrCompare(smem, s, t).ret = TRUE

\* C15: for a String s of ASCII bytes without error and every fold that
\* succeeded, StrCompare(StrUpper(a, StrUpper(a, s)), StrUpper(a, s)) and
\* StrCompare(StrLower(a, StrUpper(a, s)), StrLower(a, s)) are true, each
\* result has the length of s, and a fold leaves the bytes of the Strings made
\* before it, s among them, as they were.
C15_FoldIdempotent ==
    /\ \A i, j \in 1 .. nstrs :
          (Ascii(strs[i]) /\ FoldOf(j, "StrUpper", i) /\ Ok(strs[j])) =>
             /\ strs[j].length = strs[i].length
             /\ \A k \in 1 .. nstrs :
                   /\ (FoldOf(k, "StrUpper", j) /\ Ok(strs[k]))
                      => /\ strs[k].length = strs[i].length
                         /\ Same(strs[k], strs[j])
                   /\ (FoldOf(k, "StrLower", j) /\ Ok(strs[k]))
                      => /\ strs[k].length = strs[i].length
                         /\ \A l \in 1 .. nstrs :
                               (FoldOf(l, "StrLower", i) /\ Ok(strs[l]))
                                  => /\ strs[l].length = strs[i].length
                                     /\ Same(strs[k], strs[l])
    /\ (slast.op \in {"StrUpper", "StrLower"} /\ Ok(slast.ret)) =>
          \A i \in 1 .. (nstrs - 1) :
             (Ok(strs[i]) /\ Viewable(slast.preM, strs[i])) =>
                BytesAt(smem, strs[i].str, strs[i].length)
                   = BytesAt(slast.preM, strs[i].str, strs[i].length)

\* a text with a lower-case letter was folded: u = StrUpper(a, s),
\* StrLower(a, u) and StrLower(a, s) all succeeded
C15_Witness ==
    /\ nstrs = 4
    /\ Ascii(strs[1])
    /\ \E i \in 0 .. (strs[1].length - 1) : CharOf(smem, strs[1].str + i) = LowerA
    /\ FoldOf(2, "StrUpper", 1)
    /\ \E k, l \in 3 .. 4 : FoldOf(k, "StrLower", 2) /\ FoldOf(l, "StrLower", 1)
    /\ \A j \in 2 .. 4 : Ok(strs[j]) /\ strs[j].length > 0

Constructors == {"StrAlloc", "StrCopy", "StrUpper", "StrLower", "StrConcat"}

\* the last call was a constructor with an arena and arguments without error
\* whose bytes can be read
Constructs ==
    /\ slast.op \in Constructors
    /\ slast.ap # NULL
    /\ IF slast.op = "StrAlloc"
       THEN slast.c # NULL /\ Strlen(slast.preM, slast.c) # Indet
       ELSE /\ Ok(slast.x)
            /\ Viewable(slast.preM, slast.x)
            /\ slast.op = "StrConcat"
               => (Ok(slast.y) /\ Viewable(slast.preM, slast.y))

\* the bytes the last call has to allocate
Needed ==
    IF slast.op = "StrAlloc" THEN Strlen(slast.preM, slast.c)
    ELSE IF slast.op = "StrConcat" THEN slast.x.length + slast.y.length
    ELSE slast.x.length

\* the arena of the last call had an error or fewer free bytes than needed
OutOfMemory ==
    ~Ok(slast.preA) \/ slast.preA.pos + Needed > slast.preA.size

\* C16: StrAlloc, StrCopy, StrUpper, StrLower and StrConcat on an arena
\* that has an error or too few free bytes return a String with an error and
\* length 0; a String they return without error points to bytes the call
\* allocated from the arena, never to NULL.
C16_OutOfMemoryReported ==
    Constructs =>
        /\ ~slast.ub
        /\ OutOfMemory => (~Ok(slast.ret) /\ slast.ret.length = 0)
        /\ Ok(slast.ret) =>
              /\ slast.ret.str # NULL
              /\ slast.ret.length = Needed
              /\ slast.ret.str = slast.preA.memory + slast.preA.pos
              /\ sa.pos = slast.preA.pos + Needed
              /\ sa.pos <= sa.size

\* the last call did not read a byte of a String and did not end the program
Untouched == slast.reads = {} /\ ~slast.ub /\ ~slast.panic

\* C19: on a String s with an error, whatever its length and pointer,
\* StrCount(s, c) returns 0, StrFind(s, c), StrFindWord(s, w) and
\* StrFindString(s, w) return -1 and StrCompare with s on either side
\* returns false; none of them reads the bytes of s or ends the program.
C19_QueryDefaults ==
    /\ (slast.op = "StrCount" /\ ~Ok(slast.x))
       => (slast.ret = 0 /\ Untouched)
    /\ (slast.op \in {"StrFind", "StrFindWord", "StrFindString"} /\ ~Ok(slast.x))
       => (slast.ret = ToU32(0 - 1) /\ Untouched)
    /\ (slast.op = "StrCompare" /\ (~Ok(slast.x) \/ ~Ok(slast.y)))
       => (slast.ret = FALSE /\ Untouched)

\* --------------------------------------------------- claims on StringIter
\* every StrSplit call so far was made on the iterator, with one delimiter
SameDelim ==
    /\ isegs # <<>>
    /\ \A k \in 1 .. Len(isegs) :
          isegs[k].ip # NULL /\ isegs[k].delim = isegs[1].delim

\* the bytes the String s views
Content(s) == BytesAt(IterMem, s.str, s.length)

\* the Strings without error that the StrSplit calls returned, in order
Segments == SelectSeq([k \in 1 .. Len(isegs) |-> isegs[k].seg], Ok)

\* the bytes of the segments, joined by the delimiter d
RECURSIVE Joined(_, _)
Joined(segs, d) ==
    IF segs = <<>> THEN <<>>
    ELSE IF Len(segs) = 1 THEN Content(segs[1])
    ELSE Content(segs[1]) \o <<d>> \o Joined(Tail(segs), d)

IsPrefix(p, w) == Len(p) <= Len(w) /\ SubSeq(w, 1, Len(p)) = p

\* C12: repeated StrSplit with the delimiter d on the iterator of a String s
\* without error returns StrCount(s, d) + 1 Strings without error, the last
\* of them with the call that makes the iterator terminal; none of them
\* contains d, and joined by d they are the bytes of s.
C12_SplitRoundTrip ==
    (Ok(iter.s) /\ SameDelim) =>
        LET d == isegs[1].delim
            n == StrCount(IterMem, iter.s, d).ret
            k == Len(Segments)
        IN  /\ istate = "live"
            /\ \A j \in 1 .. k :
                  /\ Ok(isegs[j].seg)
                  /\ \A i \in 1 .. Len(Content(Segments[j])) :
                        Content(Segments[j])[i] # d
            /\ iter.err = ERR_ITERATION_FINISH
               => /\ k = n + 1
                  /\ Joined(Segments, d) = Content(iter.s)
            /\ iter.err = ERR_NO_ERROR
               => /\ k = Len(isegs)
                  /\ k <= n
                  /\ IsPrefix(Joined(Segments, d) \o <<d>>, Content(iter.s))

\* C13: StrSplit on an iterator without error leaves it without error when
\* the delimiter occurs at or after the cursor and makes it terminal
\* (ERR_ITERATION_FINISH) when not; on an iterator with an error it returns
\* a String with an error and length 0 and leaves the iterator as it was, so
\* no call brings it back; the cursor never decreases and never exceeds
\* s.length.
C13_IterStateMachine ==
    /\ iter.pos <= iter.s.length
    /\ (ilast.op = "StrSplit" /\ ilast.ip # NULL) =>
          LET pre == ilast.pre
              found == \E i \in pre.pos .. (pre.s.length - 1) :
                          CharOf(IterMem, pre.s.str + i) = ilast.delim
          IN  /\ ~ilast.ub
              /\ ~ilast.panic
              /\ Ok(pre) => /\ found => iter.err = ERR_NO_ERROR
                            /\ ~found => iter.err = ERR_ITERATION_FINISH
              /\ ~Ok(pre) => /\ ~Ok(ilast.ret)
                             /\ ilast.ret.length = 0
                             /\ iter = pre
              /\ iter.pos >= pre.pos
              /\ iter.s = pre.s

\* StrSplit was called on a terminal iterator
C13_Witness ==
    /\ ilast.op = "StrSplit"
    /\ ilast.ip # NULL
    /\ ilast.pre.err = ERR_ITERATION_FINISH
    /\ ilast.pre.pos > 0
    /\ ilast.ret.err = ERR_ITERATION_FINISH

\* ------------------------------------------------------- claims on XError
\* C20: XError(e) panics for every e that is not one of the codes
\* ERR_NO_ERROR .. ERR_NULL_PTR, returns the message of the table for a
\* code, and never reads error_msgs outside its NumErrors entries.
C20_InvalidCodePanics ==
    xlast.op = "XError" =>
        /\ ~xlast.ub
        /\ xlast.e \notin (ERR_NO_ERROR .. ERR_NULL_PTR) => xlast.panic
        /\ xlast.e \in (ERR_NO_ERROR .. ERR_NULL_PTR)
              => /\ ~xlast.panic
                 /\ xlast.ret = error_msgs[xlast.e + 1]

\* --------------------------------------------- claims on the arena of libx.c
\* the variable a holds an arena that XArenaNew returned without error
XRoot(a) == xarenas[a].memory = HeapBase(a)

\* C21: an XArenaFree of the variable of an arena that XArenaNew made and
\* XArenaFree succeeded on before returns ERR_DOUBLE_FREE and passes nothing
\* to the system allocator, so the block is released once.
C21_XDoubleFree ==
    ( /\ xalast.op = "XArenaFree"
      /\ XRoot(xalast.a)
      /\ xalast.a \in xalast.preDone )
    => /\ xalast.ret = ERR_DOUBLE_FREE
       /\ xfreed = xalast.preFreed
       /\ xastate = "live"

====
